---- MODULE Spec2Model ----
(***************************************************************************)
(* UserSphere: the user table, the user service and the HTTP handlers      *)
(* that wrap it (auth_routes.py, user_routes.py, user_service.py,          *)
(* user.py, user_schema.py, auth_utils.py).                                *)
(*                                                                         *)
(* Strings are sequences of one-character strings; an optional value       *)
(* (Python None) is the empty sequence and a present value v is <<v>>.     *)
(***************************************************************************)
EXTENDS Integers, Sequences, FiniteSets, TLC

\* users    the users table: primary key -> row
\* next_id  the next primary key the table's sequence hands out
\* now      the reading of datetime.utcnow() the handlers stamp rows with
\* req      the last request served: its operation and its inputs
\* resp     the response to it
\* fault    the error the store raises on a commit, None while it works
\* pending  the requests in flight between two steps of their handler
VARIABLES users, next_id, now, req, resp, fault, pending

vars == <<users, next_id, now, req, resp, fault, pending>>

\* ------------------------------------------------------------------ bounds

\* Number of primary keys the table's sequence hands out.
MaxUsers == 2

\* Number of times the clock advances.
MaxClock == 2

\* Number of requests whose handlers run interleaved.
MaxProcs == 3

\* ------------------------------------------------------------- characters

UpperCase == <<"A","B","C","D","E","F","G","H","I","J","K","L","M",
               "N","O","P","Q","R","S","T","U","V","W","X","Y","Z">>

LowerCase == <<"a","b","c","d","e","f","g","h","i","j","k","l","m",
               "n","o","p","q","r","s","t","u","v","w","x","y","z">>

Digits == {"0","1","2","3","4","5","6","7","8","9"}

Range(s) == {s[i] : i \in 1..Len(s)}

Letters == Range(UpperCase) \cup Range(LowerCase)

Whitespace == {" ", "\t", "\n", "\r"}

\* SQL lower() / the case folding of ILIKE, on one character.
Lower(c) ==
    IF c \in Range(UpperCase)
    THEN LowerCase[CHOOSE i \in 1..Len(UpperCase) : UpperCase[i] = c]
    ELSE c

None == <<>>

Some(v) == <<v>>

\* ------------------------------------------------------------------ inputs

Ann == <<"A","n","n">>
Bob == <<"B","o","b">>
BadName == <<"A","1">>

AnnMail == <<"a","n","n","@","x",".","c","o">>
BobMail == <<"b","o","b","@","y",".","i","o">>
BadMail == <<"b","o","b","@","y",".","i","4">>

Secret == <<"s","e","c","r","e","t">>
Hunter == <<"h","u","n","t","e","r">>
ShortPw == <<"p","w">>

Emails == {AnnMail, BobMail}
Passwords == {Secret, Hunter}

\* The values bcrypt.gensalt() draws from.
Salts == {<<"s","1">>}

Ids == 1..(MaxUsers + 1)

\* -------------------------------------------------------- credential codec

\* bcrypt.hashpw(password, salt): the stored string is the scheme prefix,
\* the salt and the digest; the digest of the model is the salted plaintext
\* read as an opaque tail.
BcryptPrefix == <<"$","2","b","$">>

HashPw(password, salt) == BcryptPrefix \o salt \o <<"$">> \o password

\* The salt a stored hash embeds, at its fixed offset after the prefix.
SaltOf(hashed) ==
    SubSeq(hashed, Len(BcryptPrefix) + 1, Len(BcryptPrefix) + 2)

\* bcrypt.checkpw(password, hashed): re-hash under the embedded salt, compare.
CheckPw(password, hashed) == HashPw(password, SaltOf(hashed)) = hashed

verify_password(password, hashed_password) == CheckPw(password, hashed_password)

check_password(plain_password, hashed_password) ==
    CheckPw(plain_password, hashed_password)

\* ------------------------------------------------------------------- model

Columns == {"id", "name", "email", "age", "password",
            "created_at", "updated_at", "is_active"}

\* User.__init__ followed by the INSERT: the primary key and the column
\* defaults (created_at, updated_at, is_active) are filled in by the store.
NewUser(id, name, email, password, age, t) ==
    [id |-> id, name |-> name, email |-> email, age |-> age,
     password |-> password, created_at |-> t, updated_at |-> t,
     is_active |-> TRUE]

\* Mutant of UserUpdate: the row is rebuilt from the keywords, an omitted
\* age falling back to None.
UserUpdateReplacing(row, kwargs, t) ==
    [c \in Columns |->
        IF c = "updated_at" THEN t
        ELSE IF c \in DOMAIN kwargs /\ c # "id" THEN kwargs[c]
        ELSE IF c = "age" THEN None
        ELSE row[c]]

\* Mutant of UserUpdate: updated_at is left as it was.
UserUpdateUnstamped(row, kwargs, t) ==
    [c \in Columns |->
        IF c \in DOMAIN kwargs /\ c # "id" THEN kwargs[c]
        ELSE row[c]]

\* User.update(**kwargs): every keyword that is an attribute other than id.
UserUpdate(row, kwargs, t) ==
    [c \in Columns |->
        IF c = "updated_at" THEN t
        ELSE IF c \in DOMAIN kwargs /\ c # "id" THEN kwargs[c]
        ELSE row[c]]

\* User.to_dict
to_dict(row) ==
    [c \in {"id", "name", "email", "age", "is_active",
            "created_at", "updated_at"} |-> row[c]]

\* ------------------------------------------------------------------- store

\* The rows of table t as a set.
Rows(t) == {t[i] : i \in DOMAIN t}

\* Query.first(): the matching row with the least primary key, or None.
First(S) ==
    IF S = {} THEN None
    ELSE Some(CHOOSE r \in S : \A o \in S : r.id <= o.id)

\* Query.all(): the matching rows in primary-key order.
RECURSIVE All(_)
All(S) ==
    IF S = {} THEN <<>>
    ELSE LET r == CHOOSE x \in S : \A o \in S : x.id <= o.id
         IN  <<r>> \o All(S \ {r})

\* User.query.get(user_id)
QueryGet(t, user_id) ==
    IF user_id \in DOMAIN t THEN Some(t[user_id]) ELSE None

\* Mutant of find_by_email: the lookup skips soft-deleted rows.
find_by_email_active(t, email) ==
    First({r \in Rows(t) : r.email = email /\ r.is_active})

\* User.query.filter_by(email=email).first()
find_by_email(t, email) == First({r \in Rows(t) : r.email = email})

\* session.add(user); session.commit()
Insert(t, row) == [i \in DOMAIN t \cup {row.id} |->
                      IF i = row.id THEN row ELSE t[i]]

\* commit of a changed row
Store(t, row) == [t EXCEPT ![row.id] = row]

\* User.delete(): session.delete(self); session.commit()
Remove(t, user_id) == [i \in DOMAIN t \ {user_id} |-> t[i]]

\* SQL LIKE on folded strings: % is any run of characters, _ any one.
RECURSIVE LikeMatch(_, _)
LikeMatch(p, s) ==
    IF p = <<>> THEN s = <<>>
    ELSE IF Head(p) = "%"
         THEN LikeMatch(Tail(p), s) \/ (s # <<>> /\ LikeMatch(p, Tail(s)))
         ELSE /\ s # <<>>
              /\ (Head(p) = "_" \/ Lower(Head(p)) = Lower(Head(s)))
              /\ LikeMatch(Tail(p), Tail(s))

\* column.ilike(pattern)
ilike(s, pattern) == LikeMatch(pattern, s)

\* -------------------------------------------------------------- validation

AlphaNum == Letters \cup Digits

SubSeqFrom(s, i) == SubSeq(s, i, Len(s))

AllIn(s, S) == \A i \in 1..Len(s) : s[i] \in S

\* validate.Length(min, max)
LengthOk(s, min, max) == min <= Len(s) /\ Len(s) <= max

\* Python's $ also matches just before one trailing newline.
Chomp(s) ==
    IF s # <<>> /\ s[Len(s)] = "\n" THEN SubSeq(s, 1, Len(s) - 1) ELSE s

\* validate.Regexp(r'^[a-zA-Z\s]+$')
NameRegexp(s) ==
    \E b \in {s, Chomp(s)} : b # <<>> /\ AllIn(b, Letters \cup Whitespace)

\* A dot-separated run of non-empty atoms over the characters S.
DotAtom(s, S) ==
    /\ s # <<>>
    /\ AllIn(s, S \cup {"."})
    /\ s[1] # "." /\ s[Len(s)] # "."
    /\ \A i \in 1..(Len(s) - 1) : ~(s[i] = "." /\ s[i + 1] = ".")

\* marshmallow.validate.Email, as fields.Email applies it: user@domain with a
\* dot-atom user part and a dotted host name whose last label has two or more
\* characters (letters, digits or inner hyphens).
EmailSyntax(e) ==
    /\ \E i \in 1..Len(e) : e[i] = "@"
    /\ LET k == CHOOSE i \in 1..Len(e) :
                   e[i] = "@" /\ \A j \in (i + 1)..Len(e) : e[j] # "@"
           user == SubSeq(e, 1, k - 1)
           host == SubSeqFrom(e, k + 1)
       IN  /\ DotAtom(user, AlphaNum \cup {"!","#","$","%","&","*","+",
                                           "/","=","?","^","_","{","}",
                                           "|","~","-"})
           /\ DotAtom(host, AlphaNum \cup {"-"})
           /\ \E i \in 1..Len(host) : host[i] = "."
           /\ \A i \in 1..Len(host) :
                 host[i] = "-" =>
                    /\ 1 < i /\ i < Len(host)
                    /\ host[i - 1] # "." /\ host[i + 1] # "."
           /\ host[Len(host) - 1] # "."

\* re.match(r'^[a-zA-Z0-9._%+-]+@[a-zA-Z0-9.-]+\.[a-zA-Z]{2,}$', email)
EmailPattern(email) ==
    \E e \in {email, Chomp(email)} :
       \E k \in 1..Len(e) :
          /\ e[k] = "@"
          /\ k > 1
          /\ AllIn(SubSeq(e, 1, k - 1), AlphaNum \cup {".","_","%","+","-"})
          /\ \E j \in (k + 2)..(Len(e) - 2) :
                /\ e[j] = "."
                /\ AllIn(SubSeq(e, k + 1, j - 1), AlphaNum \cup {".","-"})
                /\ AllIn(SubSeqFrom(e, j + 1), Letters)

MinName == 2
MaxName == 100
MaxEmail == 120
MinAge == 1
MaxAge == 150
MinPassword == 6
MaxPassword == 128

NameOk(v) == LengthOk(v, MinName, MaxName) /\ NameRegexp(v)

EmailOk(v) == EmailSyntax(v) /\ LengthOk(v, 0, MaxEmail)

\* allow_none=True, validate.Range(min=1, max=150)
AgeOk(v) == v = None \/ (MinAge <= v[1] /\ v[1] <= MaxAge)

PasswordOk(v) == LengthOk(v, MinPassword, MaxPassword)

FieldOk(f, v) ==
    CASE f = "name" -> NameOk(v)
      [] f = "email" -> EmailOk(v)
      [] f = "age" -> AgeOk(v)
      [] f = "password" -> PasswordOk(v)
      [] OTHER -> TRUE

\* Schema.load: the fields in error. Every declared field is validated and an
\* undeclared or dump-only key is an error of its own; the post_load hook
\* (validate_email_format) runs only when no field is in error.
SchemaErrors(json_data, loadable, required) ==
    LET field_errors ==
            {f \in DOMAIN json_data : f \notin loadable}
            \cup {f \in required : f \notin DOMAIN json_data}
            \cup {f \in DOMAIN json_data \cap loadable :
                     ~FieldOk(f, json_data[f])}
    IN  IF field_errors # {} THEN field_errors
        ELSE IF "email" \in DOMAIN json_data /\ json_data.email # <<>>
                /\ ~EmailPattern(json_data.email)
             THEN {"email"}
             ELSE {}

\* UserSchema (the manual schema the user routes instantiate).
UserSchemaErrors(json_data) ==
    SchemaErrors(json_data, {"name", "email", "age", "password"},
                 {"name", "email", "password"})

\* UserUpdateSchema: every field optional, is_active loadable.
UserUpdateSchemaErrors(json_data) ==
    SchemaErrors(json_data, {"name", "email", "age", "password", "is_active"},
                 {})

\* Mutant of UserSchemaLoadOnly: password declared without load_only.
NothingLoadOnly == {}

\* The fields a schema never dumps (load_only).
UserSchemaLoadOnly == {"password"}

AutoSchemaLoadOnly == {"password"}

\* UserSchema().dump(user): the declared fields that are not load_only.
UserSchemaDump(row) ==
    [c \in {"id", "name", "email", "age", "password", "is_active",
            "created_at", "updated_at"} \ UserSchemaLoadOnly |-> row[c]]

\* The SQLAlchemyAutoSchema instance user_schema that auth_routes imports:
\* every column of the model except the load_only ones.
AutoSchemaDump(row) == [c \in Columns \ AutoSchemaLoadOnly |-> row[c]]

DumpMany(rows) == [i \in 1..Len(rows) |-> UserSchemaDump(rows[i])]

\* ----------------------------------------------------------------- service

\* What a service call hands back: the exception it raised ("" when it
\* returned), its message, the User it returned, and the table afterwards.
Returned(row, t) == [exc |-> "", msg |-> "", ret |-> row, table |-> t]

Raised(exc, msg, t) == [exc |-> exc, msg |-> msg, ret |-> None, table |-> t]

\* Mutant of UniqueViolation: the column has no unique index.
NoUniqueIndex(t, row) == FALSE

\* The unique index on users.email rejects the commit of such a row.
UniqueViolation(t, row) ==
    \E r \in Rows(t) : r.id # row.id /\ r.email = row.email

\* str(e) of the exceptions db.session.commit() raises.
IntegrityError == "IntegrityError: UNIQUE constraint failed: users.email"

OperationalError == "OperationalError: disk I/O error"

\* db.session.commit() of row into t: the text of the exception it raises,
\* None when it goes through.
CommitError(t, row) ==
    IF fault # None THEN fault
    ELSE IF UniqueViolation(t, row) THEN Some(IntegrityError)
    ELSE None

\* UserService.get_all_users
get_all_users(t) == All({r \in Rows(t) : r.is_active})

\* Mutant of get_user_by_id: the is_active filter is missing.
get_user_by_id_any_status(t, user_id) ==
    First({r \in Rows(t) : r.id = user_id})

\* UserService.get_user_by_id
get_user_by_id(t, user_id) ==
    First({r \in Rows(t) : r.id = user_id /\ r.is_active})

\* UserService.get_user_by_email
get_user_by_email(t, email) ==
    First({r \in Rows(t) : r.email = email /\ r.is_active})

\* UserService.search_users
search_users(t, query) ==
    LET search_term == <<"%">> \o query \o <<"%">>
    IN  All({r \in Rows(t) :
                /\ ilike(r.name, search_term) \/ ilike(r.email, search_term)
                /\ r.is_active})

\* UserService.authenticate_user
authenticate_user(t, email, password) ==
    LET user == First({r \in Rows(t) : r.email = email /\ r.is_active})
    IN  IF user # None /\ verify_password(password, user[1].password)
        THEN user
        ELSE None

\* UserService.get_user_count
get_user_count(t) == Cardinality({r \in Rows(t) : r.is_active})

\* dict.get(key) / dict.get(key, default)
DictGet(d, key, default) == IF key \in DOMAIN d THEN d[key] ELSE default

\* Mutant of create_user: the existence check looks at active rows only.
create_user_active_check(t0, user_data, id, salt, t) ==
    IF First({r \in Rows(t0) : r.email = user_data.email /\ r.is_active})
          # None
    THEN Raised("ValueError", "Email address already exists", t0)
    ELSE LET hashed_password == HashPw(user_data.password, salt)
             user == NewUser(id, user_data.name, user_data.email,
                             hashed_password, DictGet(user_data, "age", None),
                             t)
         IN  IF CommitError(t0, user) # None
             THEN Raised("Exception", "Failed to create user: "
                                         \o CommitError(t0, user)[1], t0)
             ELSE Returned(Some(user), Insert(t0, user))

\* UserService.create_user after its email check: hash, build, save.
create_user_save(t0, user_data, id, salt, t) ==
    LET hashed_password == HashPw(user_data.password, salt)
        user == NewUser(id, user_data.name, user_data.email,
                        hashed_password, DictGet(user_data, "age", None), t)
    IN  IF CommitError(t0, user) # None
        THEN Raised("Exception", "Failed to create user: "
                                    \o CommitError(t0, user)[1], t0)
        ELSE Returned(Some(user), Insert(t0, user))

\* UserService.create_user; id, salt and t are what the store's sequence,
\* bcrypt.gensalt() and the clock supply.
create_user(t0, user_data, id, salt, t) ==
    IF find_by_email(t0, user_data.email) # None
    THEN Raised("ValueError", "Email address already exists", t0)
    ELSE create_user_save(t0, user_data, id, salt, t)

\* Mutant of update_user: any holder of the email is a collision, the
\* target itself included.
update_user_any_holder(t0, user_id, update_data, salt, t) ==
    LET found == First({r \in Rows(t0) : r.id = user_id /\ r.is_active})
    IN  IF found = None
        THEN Raised("ValueError", "User not found", t0)
        ELSE IF /\ "email" \in DOMAIN update_data
                /\ find_by_email(t0, update_data.email) # None
        THEN Raised("ValueError", "Email address already exists", t0)
        ELSE LET hashed ==
                     [k \in DOMAIN update_data |->
                         IF k = "password"
                         THEN HashPw(update_data[k], salt)
                         ELSE update_data[k]]
                 user == UserUpdate(found[1], hashed, t)
             IN  IF CommitError(t0, user) # None
                 THEN Raised("Exception", "Failed to update user: "
                                             \o CommitError(t0, user)[1], t0)
                 ELSE Returned(Some(user), Store(t0, user))

\* UserService.update_user
update_user(t0, user_id, update_data, salt, t) ==
    LET found == get_user_by_id(t0, user_id)
    IN  IF found = None
        THEN Raised("ValueError", "User not found", t0)
        ELSE IF /\ "email" \in DOMAIN update_data
                /\ LET existing_user == find_by_email(t0, update_data.email)
                   IN  existing_user # None /\ existing_user[1].id # user_id
        THEN Raised("ValueError", "Email address already exists", t0)
        ELSE LET hashed ==
                     [k \in DOMAIN update_data |->
                         IF k = "password"
                         THEN HashPw(update_data[k], salt)
                         ELSE update_data[k]]
                 user == UserUpdate(found[1], hashed, t)
             IN  IF CommitError(t0, user) # None
                 THEN Raised("Exception", "Failed to update user: "
                                             \o CommitError(t0, user)[1], t0)
                 ELSE Returned(Some(user), Store(t0, user))

\* Mutant of delete_user: the row is removed instead of flagged.
delete_user_hard(t0, user_id, t) ==
    IF First({r \in Rows(t0) : r.id = user_id /\ r.is_active}) = None
    THEN Raised("ValueError", "User not found", t0)
    ELSE Returned(None, Remove(t0, user_id))

\* UserService.delete_user
delete_user(t0, user_id, t) ==
    LET found == get_user_by_id(t0, user_id)
    IN  IF found = None
        THEN Raised("ValueError", "User not found", t0)
        ELSE LET user == UserUpdate(found[1], [is_active |-> FALSE], t)
             IN  IF CommitError(t0, user) # None
                 THEN Raised("Exception", "Failed to delete user: "
                                             \o CommitError(t0, user)[1], t0)
                 ELSE Returned(None, Store(t0, user))

\* Mutant of permanently_delete_user: the lookup is the active-only one.
permanently_delete_active_only(t0, user_id) ==
    IF First({r \in Rows(t0) : r.id = user_id /\ r.is_active}) = None
    THEN Raised("ValueError", "User not found", t0)
    ELSE Returned(None, Remove(t0, user_id))

\* UserService.permanently_delete_user
permanently_delete_user(t0, user_id) ==
    IF QueryGet(t0, user_id) = None
    THEN Raised("ValueError", "User not found", t0)
    ELSE IF fault # None
    THEN Raised("Exception", "Failed to permanently delete user: "
                                \o fault[1], t0)
    ELSE Returned(None, Remove(t0, user_id))

\* Mutant of toggle_user_status: the lookup is the active-only one.
toggle_user_status_active_only(t0, user_id, t) ==
    LET found == First({r \in Rows(t0) : r.id = user_id /\ r.is_active})
    IN  IF found = None
        THEN Raised("ValueError", "User not found", t0)
        ELSE LET user == UserUpdate(found[1],
                                    [is_active |-> ~found[1].is_active], t)
             IN  Returned(Some(user), Store(t0, user))

\* UserService.toggle_user_status: the exception of a failing commit is not
\* caught and reaches the caller as it is.
toggle_user_status(t0, user_id, t) ==
    LET found == QueryGet(t0, user_id)
    IN  IF found = None
        THEN Raised("ValueError", "User not found", t0)
        ELSE LET user == UserUpdate(found[1],
                                    [is_active |-> ~found[1].is_active], t)
             IN  IF CommitError(t0, user) # None
                 THEN Raised("SQLAlchemyError", CommitError(t0, user)[1], t0)
                 ELSE Returned(Some(user), Store(t0, user))


\* ------------------------------------------------------------------ tokens

\* The text of a header or of a token is a sequence of atoms: a word, a
\* space, or the compact serialisation of a JWT (its claims and the key its
\* signature was made with).
Word(text) == [kind |-> "word", text |-> text]

Space == [kind |-> "space"]

\* current_app.config['SECRET_KEY']
SECRET_KEY == "SECRET_KEY"

\* Default lifetime, in seconds, of a token generate_token issues.
expires_in == 3600

\* jwt.encode(payload, key, algorithm='HS256')
jwt_encode(payload, key) ==
    <<[kind |-> "jwt", payload |-> payload, key |-> key]>>

\* auth_utils.generate_token
generate_token(user_id, lifetime, t) ==
    jwt_encode([user_id |-> user_id, exp |-> t + lifetime, iat |-> t],
               SECRET_KEY)

\* jwt.decode(token, key, algorithms=['HS256']) raises: the text is not a
\* JWT, the signature was made with another key, the expiry has passed, or
\* (verify_sub: PyJWT from 2.10 on) the claim "sub" is not a string.
jwt_decode_raises(token, key, t, verify_sub) ==
    \/ Len(token) # 1
    \/ token[1].kind # "jwt"
    \/ token[1].key # key
    \/ token[1].payload.exp <= t
    \/ verify_sub /\ "sub" \in DOMAIN token[1].payload

\* auth_utils.decode_token: the payload, or None for an expired token and
\* for an invalid one alike.
decode_token(token, t, verify_sub) ==
    IF jwt_decode_raises(token, SECRET_KEY, t, verify_sub)
    THEN None
    ELSE Some(token[1].payload)

\* str.split(" "): the pieces between the spaces, empty pieces included.
RECURSIVE Split(_)
Split(text) ==
    IF \A i \in 1..Len(text) : text[i].kind # "space"
    THEN <<text>>
    ELSE LET i == CHOOSE i \in 1..Len(text) :
                     /\ text[i].kind = "space"
                     /\ \A j \in 1..(i - 1) : text[j].kind # "space"
         IN  <<SubSeq(text, 1, i - 1)>>
                \o Split(SubSeq(text, i + 1, Len(text)))

\* ---------------------------------------------------------------- handlers

\* A response: the HTTP status (0 for a direct service call), the error or
\* msg text, the user views of the body, the token, the fields in error of a
\* validation failure, and the User object a direct service call returned.
Response(status, error, data) ==
    [status |-> status, error |-> error, data |-> data, token |-> None,
     details |-> {}, ret |-> None]

NoResponse == Response(0, "", <<>>)

\* flask_jwt_extended.create_access_token(identity=...): a token of the
\* library's own layout, the identity under the claim "sub", expiring after
\* the library's default of 900 seconds, signed with the process's secret.
create_access_token(identity, t) ==
    jwt_encode([sub |-> identity, type |-> "access", iat |-> t,
                exp |-> t + 900], SECRET_KEY)

Handled(response, t) == [resp |-> response, table |-> t]

\* A ValueError / Exception of the service as the user routes translate it.
Translate(out, on_value_error) ==
    IF out.exc = "ValueError"
    THEN Response(on_value_error, out.msg, <<>>)
    ELSE Response(500, out.msg, <<>>)

\* The operation token_required wraps, called with the identifier the
\* guard resolved.
protected(current_user_id) ==
    Response(200, "", <<[current_user_id |-> current_user_id]>>)

\* auth_utils.token_required: the decorated function's answer.
token_required(headers, t, verify_sub) ==
    IF "Authorization" \in DOMAIN headers
          /\ Len(Split(headers.Authorization)) < 2
    THEN Response(401, "Invalid token format", <<>>)
    ELSE LET token == IF "Authorization" \in DOMAIN headers
                      THEN Split(headers.Authorization)[2]
                      ELSE None
         IN  IF Len(token) = 0
             THEN Response(401, "Missing token", <<>>)
             ELSE LET payload == decode_token(token, t, verify_sub)
                  IN  IF payload = None
                      THEN Response(401, "Invalid token", <<>>)
                      ELSE IF "user_id" \notin DOMAIN payload[1]
                      THEN Response(401, "Token validation failed", <<>>)
                      ELSE protected(payload[1].user_id)

\* auth_routes.register after its email check: build, add, commit. The
\* exception of a failing commit is not caught: Flask answers 500.
register_commit(t0, data, id, salt, t) ==
    LET user == NewUser(id, data.name, data.email,
                        HashPw(data.password, salt),
                        DictGet(data, "age", Some(0)), t)
    IN  IF CommitError(t0, user) # None
        THEN Handled(Response(500, "Internal Server Error", <<>>), t0)
        ELSE Handled(Response(201, "", <<AutoSchemaDump(user)>>),
                     Insert(t0, user))

\* auth_routes.register (POST /register)
register(t0, data, id, salt, t) ==
    IF find_by_email(t0, data.email) # None
    THEN Handled(Response(409, "Email already exists", <<>>), t0)
    ELSE register_commit(t0, data, id, salt, t)

\* auth_routes.login (POST /login)
login(t0, data, t) ==
    LET user == find_by_email(t0, data.email)
    IN  IF user = None \/ ~check_password(data.password, user[1].password)
        THEN Response(401, "Invalid credentials", <<>>)
        ELSE [Response(200, "", <<>>) EXCEPT
                 !.token = Some(create_access_token(user[1].id, t))]

\* user_routes.get_all_users (GET /users)
get_all_users_route(t0) ==
    Response(200, "", DumpMany(get_all_users(t0)))

\* user_routes.get_user (GET /users/<id>)
get_user_route(t0, user_id) ==
    LET user == get_user_by_id(t0, user_id)
    IN  IF user = None
        THEN Response(404, "User not found", <<>>)
        ELSE Response(200, "", <<UserSchemaDump(user[1])>>)

\* user_routes.create_user: the answer to what the service returned or raised.
create_user_reply(out) ==
    IF out.exc # ""
    THEN Handled(Translate(out, 400), out.table)
    ELSE Handled(Response(201, "", <<UserSchemaDump(out.ret[1])>>), out.table)

\* user_routes.create_user (POST /users)
create_user_route(t0, json_data, id, salt, t) ==
    IF json_data = <<>>
    THEN Handled(Response(400, "No input data provided", <<>>), t0)
    ELSE IF UserSchemaErrors(json_data) # {}
    THEN Handled([Response(400, "Validation error", <<>>) EXCEPT
                     !.details = UserSchemaErrors(json_data)], t0)
    ELSE create_user_reply(create_user(t0, json_data, id, salt, t))

\* user_routes.update_user after its existence check.
update_user_found(t0, user_id, json_data, salt, t) ==
    IF json_data = <<>>
    THEN Handled(Response(400, "No input data provided", <<>>), t0)
    ELSE IF UserUpdateSchemaErrors(json_data) # {}
    THEN Handled([Response(400, "Validation error", <<>>) EXCEPT
                     !.details = UserUpdateSchemaErrors(json_data)], t0)
    ELSE LET out == update_user(t0, user_id, json_data, salt, t)
         IN  IF out.exc # ""
             THEN Handled(Translate(out, 400), out.table)
             ELSE Handled(Response(200, "", <<UserSchemaDump(out.ret[1])>>),
                          out.table)

\* user_routes.update_user (PUT /users/<id>)
update_user_route(t0, user_id, json_data, salt, t) ==
    IF get_user_by_id(t0, user_id) = None
    THEN Handled(Response(404, "User not found", <<>>), t0)
    ELSE update_user_found(t0, user_id, json_data, salt, t)

\* user_routes.delete_user after its existence check: every exception of the
\* service, its ValueError included, is answered 500.
delete_user_found(t0, user_id, t) ==
    LET out == delete_user(t0, user_id, t)
    IN  IF out.exc # ""
        THEN Handled(Response(500, out.msg, <<>>), out.table)
        ELSE Handled(Response(200, "", <<>>), out.table)

\* user_routes.delete_user (DELETE /users/<id>)
delete_user_route(t0, user_id, t) ==
    IF get_user_by_id(t0, user_id) = None
    THEN Handled(Response(404, "User not found", <<>>), t0)
    ELSE delete_user_found(t0, user_id, t)

\* user_routes.search_users (GET /users/search?q=)
search_users_route(t0, query) ==
    IF query = <<>>
    THEN Response(400, "Search query required", <<>>)
    ELSE Response(200, "", DumpMany(search_users(t0, query)))

\* A direct call of a service method: what it returned or raised.
Called(out) ==
    [Response(0, out.msg, <<>>) EXCEPT !.ret = out.ret]

\* ------------------------------------------------------------ request sets

RegisterPayloads ==
    { [name |-> Ann, email |-> AnnMail, password |-> Secret],
      [name |-> Bob, email |-> BobMail, password |-> Secret,
       age |-> Some(30)] }

CreatePayloads ==
    { [name |-> Ann, email |-> AnnMail, password |-> Secret,
       age |-> Some(30)],
      [name |-> Bob, email |-> BobMail, password |-> Secret],
      [name |-> BadName, email |-> BadMail, password |-> ShortPw],
      [name |-> Bob, email |-> BadMail, password |-> Secret],
      <<>> }

UpdatePayloads ==
    { [name |-> Bob],
      [email |-> AnnMail],
      [email |-> BobMail],
      [age |-> Some(30)],
      [password |-> Hunter],
      [name |-> Ann, age |-> Some(30), password |-> Secret],
      [is_active |-> FALSE],
      [name |-> BadName, email |-> BobMail],
      <<>> }

LoginPayloads == [email : Emails, password : Passwords]

Queries == { <<"A","N","N">>, <<"_","o","b">>, <<>> }

\* ----------------------------------------------------------- state machine

Init ==
    /\ users = <<>>
    /\ next_id = 1
    /\ now = 0
    /\ req = [op |-> "none"]
    /\ resp = NoResponse
    /\ fault = None
    /\ pending = <<>>

\* A write handler's outcome: the table it leaves, the key it consumed, the
\* request and its response.
Commit(request, out) ==
    /\ out.table # users /\ DOMAIN out.table # DOMAIN users
          /\ next_id \in DOMAIN out.table
          => next_id <= MaxUsers
    /\ users' = out.table
    /\ next_id' = IF next_id \in DOMAIN out.table THEN next_id + 1 ELSE next_id
    /\ req' = request
    /\ resp' = out.resp
    /\ UNCHANGED <<now, fault, pending>>

\* A read handler's outcome.
Answer(request, response) ==
    /\ req' = request
    /\ resp' = response
    /\ UNCHANGED <<users, next_id, now, fault, pending>>

Register ==
    \E data \in RegisterPayloads, salt \in Salts :
       Commit([op |-> "register", data |-> data],
                 register(users, data, next_id, salt, now))

Login ==
    \E data \in LoginPayloads :
       Answer([op |-> "login", data |-> data], login(users, data, now))

AuthenticateUser ==
    \E data \in LoginPayloads :
       Answer([op |-> "authenticate_user", data |-> data],
              [NoResponse EXCEPT
                  !.ret = authenticate_user(users, data.email, data.password)])

GetAllUsers ==
    Answer([op |-> "get_all_users"], get_all_users_route(users))

GetUser ==
    \E user_id \in Ids :
       Answer([op |-> "get_user", id |-> user_id],
              get_user_route(users, user_id))

CreateUser ==
    \E json_data \in CreatePayloads, salt \in Salts :
       Commit([op |-> "create_user", data |-> json_data],
              create_user_route(users, json_data, next_id, salt, now))

UpdateUser ==
    \E user_id \in Ids, json_data \in UpdatePayloads, salt \in Salts :
       Commit([op |-> "update_user", id |-> user_id, data |-> json_data],
              update_user_route(users, user_id, json_data, salt, now))

DeleteUser ==
    \E user_id \in Ids :
       Commit([op |-> "delete_user", id |-> user_id],
              delete_user_route(users, user_id, now))

SearchUsers ==
    \E query \in Queries :
       Answer([op |-> "search_users", q |-> query],
              search_users_route(users, query))

ToggleUserStatus ==
    \E user_id \in Ids :
       LET out == toggle_user_status(users, user_id, now)
       IN  Commit([op |-> "toggle_user_status", id |-> user_id],
                  Handled(Called(out), out.table))

PermanentlyDeleteUser ==
    \E user_id \in Ids :
       LET out == permanently_delete_user(users, user_id)
       IN  Commit([op |-> "permanently_delete_user", id |-> user_id],
                  Handled(Called(out), out.table))

Next ==
    \/ Register
    \/ Login
    \/ AuthenticateUser
    \/ GetAllUsers
    \/ GetUser
    \/ CreateUser
    \/ UpdateUser
    \/ DeleteUser
    \/ SearchUsers
    \/ ToggleUserStatus
    \/ PermanentlyDeleteUser

Spec == Init /\ [][Next]_vars

\* ------------------------------------------------- the clock and the guard

\* datetime.utcnow() moves on, by the lifetime of a token.
Tick ==
    /\ now < MaxClock * expires_in
    /\ now' = now + expires_in
    /\ UNCHANGED <<users, next_id, req, resp, fault, pending>>

\* A direct call of generate_token with the default lifetime.
GenerateToken ==
    \E user_id \in Ids :
       Answer([op |-> "generate_token", id |-> user_id],
              [NoResponse EXCEPT
                  !.token = Some(generate_token(user_id, expires_in, now))])

\* The same claims under a signature made with another key.
Forged(token) == jwt_encode(token[1].payload, "attacker")

BearerHeader(token) == [Authorization |-> <<Word("Bearer"), Space>> \o token]

\* The headers of a request to a guarded operation: none, a scheme alone, an
\* empty token, a text that is no JWT and, for a client that holds the token
\* of the last response, that token under two schemes and a forgery of it.
GuardedHeaders ==
    { <<>>,
      [Authorization |-> <<Word("Bearer")>>],
      BearerHeader(<<>>),
      BearerHeader(<<Word("garbage")>>) }
    \cup (IF resp.token = None THEN {}
          ELSE { BearerHeader(resp.token[1]),
                 [Authorization |-> <<Word("Basic"), Space>> \o resp.token[1]],
                 BearerHeader(Forged(resp.token[1])) })

\* A request to an operation decorated with token_required; the installed
\* PyJWT either verifies the type of "sub" or does not.
ProtectedRequest ==
    \E headers \in GuardedHeaders, verify_sub \in BOOLEAN :
       Answer([op |-> "protected", headers |-> headers],
              token_required(headers, now, verify_sub))

\* The requests of the timestamp specification: one registration, one
\* creation, and updates of which one tries to set created_at.
ClockUpdatePayloads == { [name |-> Bob], [created_at |-> 0] }

RegisterAnn ==
    \E salt \in Salts :
       LET data == [name |-> Ann, email |-> AnnMail, password |-> Secret]
       IN  Commit([op |-> "register", data |-> data],
                  register(users, data, next_id, salt, now))

CreateBob ==
    \E salt \in Salts :
       LET json_data == [name |-> Bob, email |-> BobMail, password |-> Secret]
       IN  Commit([op |-> "create_user", data |-> json_data],
                  create_user_route(users, json_data, next_id, salt, now))

UpdateUserAt ==
    \E user_id \in Ids, json_data \in ClockUpdatePayloads, salt \in Salts :
       Commit([op |-> "update_user", id |-> user_id, data |-> json_data],
              update_user_route(users, user_id, json_data, salt, now))

NextClock ==
    \/ RegisterAnn
    \/ CreateBob
    \/ UpdateUserAt
    \/ DeleteUser
    \/ ToggleUserStatus
    \/ PermanentlyDeleteUser
    \/ Tick

SpecClock == Init /\ [][NextClock]_vars

\* ---------------------------------------------------- a store that fails

\* The store starts to reject commits.
StoreFails ==
    /\ fault = None
    /\ fault' = Some(OperationalError)
    /\ UNCHANGED <<users, next_id, now, req, resp, pending>>

\* The store works again.
StoreRecovers ==
    /\ fault # None
    /\ fault' = None
    /\ UNCHANGED <<users, next_id, now, req, resp, pending>>

NextFail ==
    \/ Next
    \/ StoreFails
    \/ StoreRecovers

SpecFail == Init /\ [][NextFail]_vars

\* ------------------------------------------------- interleaved handlers

\* A request enters and its handler runs up to its existence check: it is
\* answered at once (early) or waits for the handler's next step.
Enter(request, early, response) ==
    /\ Len(pending) < MaxProcs
    /\ IF early
       THEN /\ pending' = Append(pending, [request |-> request, pc |-> "done",
                                           resp |-> response])
            /\ req' = request
            /\ resp' = response
       ELSE /\ pending' = Append(pending, [request |-> request,
                                           pc |-> "checked",
                                           resp |-> NoResponse])
            /\ UNCHANGED <<req, resp>>
    /\ UNCHANGED <<users, next_id, now, fault>>

\* The handler of request p runs from its check to its answer.
Settle(p, out) ==
    /\ out.table # users /\ DOMAIN out.table # DOMAIN users
          /\ next_id \in DOMAIN out.table
          => next_id <= MaxUsers
    /\ users' = out.table
    /\ next_id' = IF next_id \in DOMAIN out.table THEN next_id + 1 ELSE next_id
    /\ req' = pending[p].request
    /\ resp' = out.resp
    /\ pending' = [pending EXCEPT ![p].pc = "done", ![p].resp = out.resp]
    /\ UNCHANGED <<now, fault>>

\* The requests past their check that wait for their handler's next step.
Waiting(op) ==
    {p \in DOMAIN pending :
        pending[p].pc = "checked" /\ pending[p].request.op = op}

RegisterCheck ==
    \E data \in RegisterPayloads, salt \in Salts :
       Enter([op |-> "register", data |-> data],
             find_by_email(users, data.email) # None,
             register(users, data, next_id, salt, now).resp)

RegisterCommit ==
    \E p \in Waiting("register"), salt \in Salts :
       Settle(p, register_commit(users, pending[p].request.data, next_id,
                                 salt, now))

CreateCheck ==
    \E json_data \in RegisterPayloads, salt \in Salts :
       Enter([op |-> "create_user", data |-> json_data],
             UserSchemaErrors(json_data) # {}
                \/ find_by_email(users, json_data.email) # None,
             create_user_route(users, json_data, next_id, salt, now).resp)

CreateSave ==
    \E p \in Waiting("create_user"), salt \in Salts :
       Settle(p, create_user_reply(
                    create_user_save(users, pending[p].request.data, next_id,
                                     salt, now)))

NextRace ==
    \/ RegisterCheck
    \/ RegisterCommit
    \/ CreateCheck
    \/ CreateSave

SpecRace == Init /\ [][NextRace]_vars

UpdateCheck ==
    \E user_id \in Ids, salt \in Salts :
       LET json_data == [name |-> Bob]
       IN  Enter([op |-> "update_user", id |-> user_id, data |-> json_data],
                 get_user_by_id(users, user_id) = None,
                 update_user_route(users, user_id, json_data, salt, now).resp)

UpdateCall ==
    \E p \in Waiting("update_user"), salt \in Salts :
       Settle(p, update_user_found(users, pending[p].request.id,
                                   pending[p].request.data, salt, now))

DeleteCheck ==
    \E user_id \in Ids :
       Enter([op |-> "delete_user", id |-> user_id],
             get_user_by_id(users, user_id) = None,
             delete_user_route(users, user_id, now).resp)

DeleteCall ==
    \E p \in Waiting("delete_user") :
       Settle(p, delete_user_found(users, pending[p].request.id, now))

NextStale ==
    \/ RegisterAnn
    \/ UpdateCheck
    \/ UpdateCall
    \/ DeleteCheck
    \/ DeleteCall

SpecStale == Init /\ [][NextStale]_vars

NextAuth ==
    \/ Register
    \/ Login
    \/ GenerateToken
    \/ ProtectedRequest
    \/ Tick

SpecAuth == Init /\ [][NextAuth]_vars

\* ------------------------------------------------------------------ claims

Elements(seq) == {seq[i] : i \in 1..Len(seq)}

\* The row holding an email, whatever its status.
Holders(t, email) == {r \in Rows(t) : r.email = email}

\* An active row with that email whose stored hash the password verifies.
ActiveMatch(t, email, password) ==
    \E r \in Rows(t) :
       r.email = email /\ r.is_active /\ CheckPw(password, r.password)

\* The request carried a payload the create schema accepts.
ValidCreate(request) ==
    request.data # <<>> /\ UserSchemaErrors(request.data) = {}

\* The request carried a payload the update schema accepts.
ValidUpdate(request) ==
    request.data # <<>> /\ UserUpdateSchemaErrors(request.data) = {}

\* The DuplicateEmail answer of POST /register (409) and POST /users (400).
DuplicateEmail(request, response) ==
    IF request.op = "register"
    THEN response.status = 409 /\ response.error = "Email already exists"
    ELSE response.status = 400
         /\ response.error = "Email address already exists"

\* The unique index on users.email had to reject a commit.
IndexRejected ==
    \/ resp.error \in {"Failed to create user: " \o IntegrityError,
                      "Failed to update user: " \o IntegrityError}
    \/ req.op = "register" /\ resp.status = 500

\* Row r matches search query q by name or by email.
Matches(r, q) ==
    LET term == <<"%">> \o q \o <<"%">>
    IN  ilike(r.name, term) \/ ilike(r.email, term)

\* C1: in every reachable state no two rows of the user table, active or
\* inactive, hold the same email; the handlers' own existence checks keep it
\* so, the unique index never having to reject a commit.
C1_EmailUnique ==
    /\ \A i, j \in DOMAIN users :
          i # j => users[i].email # users[j].email
    /\ ~IndexRejected

\* C1 witness: two rows, one of them soft-deleted, and an update that tried
\* to take the other row's email was refused.
C1_Witness ==
    /\ Cardinality(DOMAIN users) = 2
    /\ \E i \in DOMAIN users : ~users[i].is_active
    /\ req.op = "update_user"
    /\ resp.error = "Email address already exists"

\* C2: authenticate(email, password), as UserService.authenticate_user and as
\* POST /login, succeeds exactly when an active user with that email exists
\* and the password verifies against its hash; otherwise InvalidCredentials
\* and no token.
C2_AuthenticateIffActive ==
    /\ req.op = "login" =>
          LET ok == ActiveMatch(users, req.data.email, req.data.password)
          IN  /\ ok => resp.status = 200 /\ resp.token # None
              /\ ~ok => resp.status = 401 /\ resp.token = None
                        /\ resp.error = "Invalid credentials"
    /\ req.op = "authenticate_user" =>
          (resp.ret # None
              <=> ActiveMatch(users, req.data.email, req.data.password))

\* C3: a user whose is_active is false is returned by none of get_all_users,
\* get_user_by_id, get_user_by_email and search_users, and by no GET /users,
\* GET /users/<id> or search response, while toggle_user_status and
\* permanently_delete_user still find it by id; right after a successful
\* delete(id), GET /users/<id> answers 404 and no search contains the user.
C3_InactiveInvisible ==
    /\ \A r \in Rows(users) :
          ~r.is_active =>
             /\ r \notin Elements(get_all_users(users))
             /\ get_user_by_id(users, r.id) = None
             /\ get_user_by_email(users, r.email) = None
             /\ \A q \in Queries : r \notin Elements(search_users(users, q))
             /\ toggle_user_status(users, r.id, now).exc = ""
             /\ permanently_delete_user(users, r.id).exc = ""
    /\ req.op \in {"get_all_users", "get_user", "search_users"} =>
          \A v \in Elements(resp.data) :
             v.id \in DOMAIN users /\ users[v.id].is_active
    /\ req.op = "delete_user" /\ resp.status = 200 =>
          /\ get_user_route(users, req.id).status = 404
          /\ \A q \in Queries :
                \A v \in Elements(search_users_route(users, q).data) :
                   v.id # req.id

\* C3 witness: a delete has just soft-deleted a user that a search query
\* matches by name or email.
C3_Witness ==
    /\ req.op = "delete_user"
    /\ resp.status = 200
    /\ req.id \in DOMAIN users
    /\ ~users[req.id].is_active
    /\ \E q \in Queries \ {<<>>} : Matches(users[req.id], q)

\* C4: register, and create with a payload its schema accepts, given an
\* email exactly equal to that of an existing row, active or soft-deleted,
\* fails with DuplicateEmail and leaves the table unchanged; given an email
\* no row holds it adds exactly one row, with is_active true, and changes no
\* other row.
C4_RegisterDuplicateOrInsert ==
    [][ (/\ req'.op \in {"register", "create_user"}
         /\ req'.op = "create_user" => ValidCreate(req'))
        => IF Holders(users, req'.data.email) # {}
           THEN DuplicateEmail(req', resp') /\ users' = users
           ELSE /\ resp'.status = 201
                /\ \E id \in DOMAIN users' \ DOMAIN users :
                      /\ DOMAIN users' = DOMAIN users \cup {id}
                      /\ users'[id].is_active
                      /\ users'[id].email = req'.data.email
                /\ \A j \in DOMAIN users : users'[j] = users[j] ]_vars

\* C4 witness: a registration was refused because a soft-deleted row holds
\* the email.
C4_Witness ==
    /\ req.op \in {"register", "create_user"}
    /\ DuplicateEmail(req, resp)
    /\ \E r \in Holders(users, req.data.email) : ~r.is_active

\* C5: no user view in any response body contains the password or its hash,
\* and User.to_dict has no password entry.
C5_NoPasswordInViews ==
    /\ \A v \in Elements(resp.data) : "password" \notin DOMAIN v
    /\ \A r \in Rows(users) : "password" \notin DOMAIN to_dict(r)

\* C5 witness: a handler has answered with the view of a stored user.
C5_Witness ==
    /\ req.op \in {"register", "create_user", "update_user", "get_user",
                   "get_all_users", "search_users"}
    /\ resp.data # <<>>
    /\ \A v \in Elements(resp.data) :
          v.id \in DOMAIN users /\ users[v.id].password \in
             {HashPw(p, s) : p \in Passwords, s \in Salts}

\* C6: a successful update(id, partial) changes, among name, email, age and
\* password, only the fields present in the payload, the password being
\* stored as a hash of the supplied plaintext; every omitted field keeps its
\* prior value and every other row is unchanged.
C6_UpdateOnlySupplied ==
    [][ (req'.op = "update_user" /\ resp'.status = 200)
        => LET id == req'.id
               d == req'.data
           IN  /\ DOMAIN users' = DOMAIN users
               /\ \A j \in DOMAIN users \ {id} : users'[j] = users[j]
               /\ users'[id].id = id
               /\ \A f \in {"name", "email", "age"} :
                     users'[id][f] =
                        IF f \in DOMAIN d THEN d[f] ELSE users[id][f]
               /\ IF "password" \in DOMAIN d
                  THEN /\ users'[id].password # d.password
                       /\ users'[id].password \in
                             {HashPw(d.password, salt) : salt \in Salts}
                       /\ CheckPw(d.password, users'[id].password)
                  ELSE users'[id].password = users[id].password ]_vars

\* C6 witness: an update carrying some but not all of the four fields,
\* password among them, has succeeded while another row was in the table.
C6_Witness ==
    /\ req.op = "update_user"
    /\ resp.status = 200
    /\ DOMAIN req.data = {"name", "age", "password"}
    /\ Cardinality(DOMAIN users) = 2

\* C7: update(id, partial) fails with NotFound when no active user has that
\* id and, for an active user and a payload the update schema accepts, with
\* DuplicateEmail when the payload's email is held by a row with another id,
\* active or soft-deleted, the table being unchanged in both cases; an
\* update to the target's own current email succeeds.
C7_UpdateFailures ==
    [][ req'.op = "update_user"
        => LET id == req'.id
               d == req'.data
               active == get_user_by_id(users, id) # None
           IN  /\ ~active =>
                     /\ resp'.status = 404
                     /\ resp'.error = "User not found"
                     /\ users' = users
               /\ (/\ active
                   /\ ValidUpdate(req')
                   /\ "email" \in DOMAIN d
                   /\ \E r \in Holders(users, d.email) : r.id # id)
                  => /\ resp'.status = 400
                     /\ resp'.error = "Email address already exists"
                     /\ users' = users
               /\ (/\ active
                   /\ ValidUpdate(req')
                   /\ "email" \in DOMAIN d
                   /\ d.email = users[id].email)
                  => resp'.status = 200 ]_vars

\* C7 witness: an update was refused because a soft-deleted row with another
\* id holds the email it asked for.
C7_Witness ==
    /\ req.op = "update_user"
    /\ resp.status = 400
    /\ resp.error = "Email address already exists"
    /\ \E r \in Holders(users, req.data.email) :
          r.id # req.id /\ ~r.is_active

\* C8: delete(id) on an active user sets is_active to false and keeps the
\* row, with the same id, name, email and password hash, in the table;
\* delete(id) when no active user has that id, a second delete of the same id
\* included, fails with NotFound and changes nothing.
C8_SoftDelete ==
    [][ req'.op = "delete_user"
        => LET id == req'.id
           IN  IF get_user_by_id(users, id) # None
               THEN /\ resp'.status = 200
                    /\ DOMAIN users' = DOMAIN users
                    /\ ~users'[id].is_active
                    /\ \A f \in {"id", "name", "email", "password"} :
                          users'[id][f] = users[id][f]
                    /\ \A j \in DOMAIN users \ {id} : users'[j] = users[j]
                    /\ delete_user_route(users', id, now').resp.status = 404
                    /\ delete_user_route(users', id, now').table = users'
               ELSE /\ resp'.status = 404
                    /\ resp'.error = "User not found"
                    /\ users' = users ]_vars

\* C8 witness: a delete of an id whose row is already soft-deleted was
\* answered NotFound.
C8_Witness ==
    /\ req.op = "delete_user"
    /\ resp.status = 404
    /\ req.id \in DOMAIN users
    /\ ~users[req.id].is_active

\* C9: permanently_delete(id) removes the row with that id whether active or
\* soft-deleted and fails with NotFound, the table unchanged, only when no
\* row has that id; afterwards no operation finds the id, toggle_status
\* included, and the removed row's email can be registered again.
C9_PermanentDelete ==
    [][ req'.op = "permanently_delete_user"
        => LET id == req'.id
           IN  IF id \in DOMAIN users
               THEN /\ resp'.error = ""
                    /\ DOMAIN users' = DOMAIN users \ {id}
                    /\ \A j \in DOMAIN users' : users'[j] = users[j]
                    /\ QueryGet(users', id) = None
                    /\ get_user_by_id(users', id) = None
                    /\ get_user_route(users', id).status = 404
                    /\ toggle_user_status(users', id, now').exc = "ValueError"
                    /\ permanently_delete_user(users', id).exc = "ValueError"
                    /\ update_user_route(users', id, [name |-> Bob],
                                         <<"s","1">>, now').resp.status = 404
                    /\ delete_user_route(users', id, now').resp.status = 404
                    /\ \A data \in RegisterPayloads, salt \in Salts :
                          data.email = users[id].email =>
                             register(users', data, next_id', salt,
                                      now').resp.status = 201
               ELSE /\ resp'.error = "User not found"
                    /\ users' = users ]_vars

\* C9 witness: a permanent delete has removed a row and another row remains.
C9_Witness ==
    /\ req.op = "permanently_delete_user"
    /\ resp.error = ""
    /\ req.id \notin DOMAIN users
    /\ req.id < next_id
    /\ DOMAIN users # {}

\* C10: toggle_status(id) negates is_active of the row with that id, active
\* or inactive, and fails with NotFound only when no row has that id; a
\* second toggle of the same id restores the original value, and a toggle
\* right after delete(id) makes the user visible to get, list, search and
\* authenticate again.
C10_Toggle ==
    [][ req'.op = "toggle_user_status"
        => LET id == req'.id
           IN  IF id \in DOMAIN users
               THEN /\ resp'.error = ""
                    /\ DOMAIN users' = DOMAIN users
                    /\ users'[id].is_active = ~users[id].is_active
                    /\ \A j \in DOMAIN users \ {id} : users'[j] = users[j]
                    /\ toggle_user_status(users', id, now').table[id].is_active
                          = users[id].is_active
                    /\ (req.op = "delete_user" /\ resp.status = 200
                        /\ req.id = id)
                       => LET r == users'[id]
                          IN  /\ get_user_by_id(users', id) = Some(r)
                              /\ get_user_route(users', id).status = 200
                              /\ r \in Elements(get_all_users(users'))
                              /\ get_user_by_email(users', r.email) = Some(r)
                              /\ \A q \in Queries \ {<<>>} :
                                    Matches(r, q) =>
                                       r \in Elements(search_users(users', q))
                              /\ \A p \in Passwords :
                                    CheckPw(p, r.password) =>
                                       /\ authenticate_user(users', r.email, p)
                                             = Some(r)
                                       /\ login(users', [email |-> r.email,
                                                         password |-> p],
                                             now').status
                                             = 200
               ELSE /\ resp'.error = "User not found"
                    /\ users' = users ]_vars

\* C10 witness: a toggle has made a row active, that is, it acted on a row
\* that was inactive.
C10_Witness ==
    /\ req.op = "toggle_user_status"
    /\ resp.error = ""
    /\ req.id \in DOMAIN users
    /\ users[req.id].is_active
    /\ resp.ret = Some(users[req.id])

\* The fields of a payload that break a rule of the schema, the pattern of
\* the explicit email pass included, whatever the other fields are.
InvalidFields(json_data, loadable, required) ==
    {f \in DOMAIN json_data : f \notin loadable}
    \cup {f \in required : f \notin DOMAIN json_data}
    \cup {f \in DOMAIN json_data \cap loadable : ~FieldOk(f, json_data[f])}
    \cup (IF "email" \in DOMAIN json_data /\ json_data.email # <<>>
             /\ ~EmailPattern(json_data.email)
          THEN {"email"} ELSE {})

\* C14: a validation error answer names every invalid field of the payload,
\* the email that passes the syntax check but fails the explicit pattern
\* included, also when another field is invalid as well.
C14_AllErrorsCollected ==
    /\ (req.op = "create_user" /\ resp.error = "Validation error")
       => resp.details
             = InvalidFields(req.data, {"name", "email", "age", "password"},
                             {"name", "email", "password"})
    /\ (req.op = "update_user" /\ resp.error = "Validation error")
       => resp.details
             = InvalidFields(req.data, {"name", "email", "age", "password",
                                        "is_active"}, {})

\* C15: the age of every stored row is absent or lies between MinAge and
\* MaxAge, whichever path created or updated the row.
C15_StoredAgeInRange ==
    \A r \in Rows(users) :
       r.age = None \/ (r.age[1] >= MinAge /\ r.age[1] <= MaxAge)

\* C18: an update leaves is_active alone: a row that was active before a
\* PUT is active after it, and still visible to get, list and search.
C18_UpdateKeepsActive ==
    [][ req'.op = "update_user"
        => \A id \in DOMAIN users :
              users[id].is_active
              => /\ id \in DOMAIN users'
                 /\ users'[id].is_active
                 /\ get_user_by_id(users', id) = Some(users'[id])
                 /\ users'[id] \in Elements(get_all_users(users')) ]_vars

\* The instants a token can have been issued at.
IssueTimes == {k * expires_in : k \in 0..MaxClock}

\* The token of a header of the form "Bearer <token>", None for another form.
BearerToken(headers) ==
    IF /\ "Authorization" \in DOMAIN headers
       /\ Len(headers.Authorization) >= 2
       /\ headers.Authorization[1] = Word("Bearer")
       /\ headers.Authorization[2] = Space
    THEN Some(SubSeq(headers.Authorization, 3, Len(headers.Authorization)))
    ELSE None

\* A JWT signed with the process's secret ...
Signed(token) ==
    Len(token) = 1 /\ token[1].kind = "jwt" /\ token[1].key = SECRET_KEY

\* ... and not yet expired at t.
Unexpired(token, t) == token[1].payload.exp > t

\* C11: the token a successful login issued for user u, presented before it
\* expires, passes the guard, which calls the operation with u.
C11_LoginTokenAccepted ==
    [][ \A u \in Ids, t \in IssueTimes :
           LET token == create_access_token(u, t)
           IN  (/\ req'.op = "protected" /\ now' = now
                /\ req'.headers = BearerHeader(token)
                /\ Unexpired(token, now))
               => resp' = protected(u) ]_vars

\* C12: the guard calls the operation only for a header "Bearer <token>"
\* whose token is validly signed and unexpired, and then with the token's
\* user id; every other request gets a 401 and the operation is not called.
C12_GuardOnlyBearer ==
    [][ (req'.op = "protected" /\ now' = now)
        => LET bearer == BearerToken(req'.headers)
               valid == /\ bearer # None
                        /\ Signed(bearer[1])
                        /\ Unexpired(bearer[1], now)
           IN  /\ resp'.status = 200
                  => /\ valid
                     /\ resp' = protected(bearer[1][1].payload.user_id)
               /\ ~valid => resp'.status = 401 /\ resp'.data = <<>> ]_vars

\* C13: verification of an expired token gives another outcome than
\* verification of a malformed token or of one signed with another key.
C13_ExpiredDistinguished ==
    [][ \A verify_sub \in BOOLEAN :
           LET bearer == BearerToken(req'.headers)
           IN  (/\ req'.op = "protected" /\ now' = now
                /\ bearer # None
                /\ Signed(bearer[1])
                /\ ~Unexpired(bearer[1], now))
               => /\ decode_token(bearer[1], now, verify_sub)
                        # decode_token(<<Word("garbage")>>, now, verify_sub)
                  /\ decode_token(bearer[1], now, verify_sub)
                        # decode_token(Forged(bearer[1]), now, verify_sub) ]_vars

\* The request of a step changed a row: an update or a soft delete answered
\* 200, or a toggle returned.
Mutated(request, response) ==
    \/ request.op \in {"update_user", "delete_user"} /\ response.status = 200
    \/ request.op = "toggle_user_status" /\ response.error = ""

\* C17: over a row's lifetime id and created_at never change, a successful
\* update, delete or toggle stamps updated_at with the time of the call, so
\* updated_at never decreases and created_at <= updated_at always.
C17_Timestamps ==
    [][ /\ \A id \in DOMAIN users' :
              /\ users'[id].id = id
              /\ users'[id].created_at <= users'[id].updated_at
        /\ \A id \in DOMAIN users \cap DOMAIN users' :
              /\ users'[id].created_at = users[id].created_at
              /\ users'[id].updated_at >= users[id].updated_at
        /\ (now' = now /\ Mutated(req', resp'))
           => users'[req'.id].updated_at = now ]_vars

\* C17 witness: a row created at one time was soft-deleted at a later one.
C17_Witness ==
    /\ req.op = "delete_user"
    /\ resp.status = 200
    /\ users[req.id].updated_at = now
    /\ users[req.id].created_at < now

\* The write operations.
Writes ==
    {"register", "create_user", "update_user", "delete_user",
     "permanently_delete_user", "toggle_user_status"}

\* The request was turned down before it reached the store.
TurnedDown(response) ==
    \/ response.status \in {400, 404, 409}
    \/ response.status = 0
          /\ response.error \in {"User not found"}

\* The text holds the store's own error message.
HoldsInternalText(text) ==
    \E prefix \in {"", "Failed to create user: ", "Failed to update user: ",
                   "Failed to delete user: ",
                   "Failed to permanently delete user: "} :
       text \in {prefix \o IntegrityError, prefix \o OperationalError}

\* C16: a write that reaches a failing store leaves the table as it was and
\* is answered with a 500 whose message holds nothing of the store's error.
C16_WriteFailureGeneric ==
    [][ (fault # None /\ fault' = fault /\ req'.op \in Writes
         /\ ~TurnedDown(resp'))
        => /\ users' = users
           /\ resp'.status = 500
           /\ ~HoldsInternalText(resp'.error) ]_vars

\* The requests in flight or answered that carry email e.
Carrying(e) == {p \in DOMAIN pending : pending[p].request.data.email = e}

\* Those of them that were answered, and those answered 201.
Answered(e) == {p \in Carrying(e) : pending[p].pc = "done"}

Winners(e) == {p \in Answered(e) : pending[p].resp.status = 201}

\* C19: of the interleaved register and create requests with one fresh
\* email at most one succeeds, every other one is answered with an error and
\* leaves no row, and once all are answered exactly one row holds the email.
C19_OneWinner ==
    \A e \in Emails :
       /\ Cardinality(Winners(e)) <= 1
       /\ Cardinality(Holders(users, e)) = Cardinality(Winners(e))
       /\ \A p \in Answered(e) \ Winners(e) :
             pending[p].resp.status \in {400, 409, 500}
       /\ (Carrying(e) # {} /\ Answered(e) = Carrying(e))
          => Cardinality(Holders(users, e)) = 1

\* C19 witness: two requests with one email both passed their check; one
\* was answered 201, the other was rejected by the unique index.
C19_Witness ==
    \E e \in Emails :
       \E p, q \in Answered(e) :
          /\ pending[p].resp.status = 201
          /\ pending[q].resp.status = 500
          /\ Cardinality(Holders(users, e)) = 1

\* C20: a PUT or DELETE whose service call finds no active user with the id,
\* another request having deleted it after the handler's check, is answered
\* 404, not 400, 500 or 200.
C20_StaleNotFound ==
    [][ \A p \in DOMAIN pending :
           (/\ pending[p].pc = "checked"
            /\ pending'[p].pc = "done"
            /\ get_user_by_id(users, pending[p].request.id) = None)
           => pending'[p].resp.status = 404 ]_vars

====
